---- MODULE Spec2Model ----
(***************************************************************************)
(* Model of the job-finder deduplication core (src/deduplication.py), the  *)
(* job_listings table it reads and writes (src/database.py) and the stages *)
(* of the pipeline run that drive it (src/main.py).                        *)
(*                                                                         *)
(* A Python str is a sequence of one-character strings: "Ab c" is          *)
(* <<"A","b"," ","c">>.  None is a value distinct from every str.          *)
(* JobListing objects live in a heap (listings) indexed by object id; the  *)
(* Python lists of the run hold object ids, so that an in-place mutation   *)
(* of a listing is seen through every list that references it.             *)
(***************************************************************************)
EXTENDS Integers, Sequences, FiniteSets, TLC

\* ------------------------------------------------------------------------
\* Python values
\* ------------------------------------------------------------------------

\* Optional[str] = None
None == <<"None">>

\* Optional[float] = None, Optional[int] = None (salaries and row ids are >= 0)
NoneNum == -1

\* Python truthiness of an Optional[str]
Truthy(s) == s # None /\ s # <<>>

UpperChars == <<"A","B","C","D","E","F","G","H","I","J","K","L","M",
                "N","O","P","Q","R","S","T","U","V","W","X","Y","Z">>

LowerChars == <<"a","b","c","d","e","f","g","h","i","j","k","l","m",
                "n","o","p","q","r","s","t","u","v","w","x","y","z">>

DigitChars == {"0","1","2","3","4","5","6","7","8","9"}

\* characters matched by \s
SpaceChars == {" ", "\t", "\n"}

Range(s) == {s[i] : i \in 1..Len(s)}

\* characters matched by \w
WordChars == Range(UpperChars) \cup Range(LowerChars) \cup DigitChars \cup {"_"}

LowerChar(c) ==
    IF \E i \in 1..26 : UpperChars[i] = c
    THEN LowerChars[CHOOSE i \in 1..26 : UpperChars[i] = c]
    ELSE c

\* str.lower()
lower(s) == [i \in 1..Len(s) |-> LowerChar(s[i])]

\* F(x), with x computed once however often F refers to it: TLC computes
\* an argument anew at each reference when it evaluates ENABLED
Once(F(_), x) == CHOOSE r \in {F(v) : v \in {x}} : TRUE

\* str.strip()
strip(s) ==
    Once(LAMBDA v :
            LET keep == {i \in 1..Len(v) : v[i] \notin SpaceChars}
            IN  IF keep = {} THEN <<>>
                ELSE LET lo == CHOOSE i \in keep : \A j \in keep : i <= j
                         hi == CHOOSE i \in keep : \A j \in keep : j <= i
                     IN  SubSeq(v, lo, hi),
         s)

\* re.sub(r'[^\w\s]', '', s)
RemovePunctuation(s) == SelectSeq(s, LAMBDA c : c \in WordChars \cup SpaceChars)

RECURSIVE SplitFrom(_, _, _)
SplitFrom(s, i, word) ==
    IF i > Len(s)
    THEN IF word = <<>> THEN <<>> ELSE <<word>>
    ELSE IF s[i] \in SpaceChars
         THEN IF word = <<>> THEN SplitFrom(s, i + 1, <<>>)
              ELSE <<word>> \o SplitFrom(s, i + 1, <<>>)
         ELSE SplitFrom(s, i + 1, Append(word, s[i]))

\* str.split()
split(s) == Once(LAMBDA v : SplitFrom(v, 1, <<>>), s)

RECURSIVE JoinFrom(_, _, _)
JoinFrom(sep, words, i) ==
    IF i > Len(words) THEN <<>>
    ELSE IF i = Len(words) THEN words[i]
    ELSE words[i] \o sep \o JoinFrom(sep, words, i + 1)

\* sep.join(words)
join(sep, words) == Once(LAMBDA v : JoinFrom(sep, v, 1), words)

RECURSIVE ReplaceFrom(_, _, _, _)
ReplaceFrom(s, old, new, i) ==
    IF i > Len(s) THEN <<>>
    ELSE IF s[i] = old THEN new \o ReplaceFrom(s, old, new, i + 1)
    ELSE <<s[i]>> \o ReplaceFrom(s, old, new, i + 1)

\* str.replace(old, new) for a one-character old
replace(s, old, new) == Once(LAMBDA v : ReplaceFrom(v, old, new, 1), s)

\* kw in s
Contains(s, kw) ==
    \E i \in 1..(Len(s) - Len(kw) + 1) : SubSeq(s, i, i + Len(kw) - 1) = kw

RECURSIVE SplitOnFrom(_, _, _, _)
SplitOnFrom(s, d, i, part) ==
    IF i > Len(s) THEN <<part>>
    ELSE IF s[i] = d THEN <<part>> \o SplitOnFrom(s, d, i + 1, <<>>)
    ELSE SplitOnFrom(s, d, i + 1, Append(part, s[i]))

\* str.split(d) for a one-character delimiter d
SplitOn(s, d) == SplitOnFrom(s, d, 1, <<>>)

\* ------------------------------------------------------------------------
\* Normalizers
\* ------------------------------------------------------------------------

COMPANY_SUFFIXES == {
    <<"i","n","c">>, <<"i","n","c",".">>, <<"l","l","c">>, <<"l","l","c",".">>,
    <<"c","o","r","p">>, <<"c","o","r","p",".">>,
    <<"c","o","r","p","o","r","a","t","i","o","n">>,
    <<"l","t","d">>, <<"l","t","d",".">>, <<"l","i","m","i","t","e","d">>,
    <<"c","o">>, <<"c","o",".">>, <<"c","o","m","p","a","n","y">>,
    <<"t","e","c","h","n","o","l","o","g","i","e","s">>,
    <<"t","e","c","h","n","o","l","o","g","y">>, <<"t","e","c","h">>,
    <<"l","a","b","s">>, <<"l","a","b">>,
    <<"g","r","o","u","p">>, <<"h","o","l","d","i","n","g","s">>,
    <<"s","o","l","u","t","i","o","n","s">>, <<"s","e","r","v","i","c","e","s">> }

FUZZY_THRESHOLD == 85

\* normalize_company dropping the suffixes before the punctuation
normalize_company_SuffixFirst(name) ==
    LET n1    == strip(lower(name))
        words == SelectSeq(split(n1), LAMBDA w : w \notin COMPANY_SUFFIXES)
    IN  strip(RemovePunctuation(join(<<" ">>, words)))

\* normalize_company keeping the suffix words
normalize_company_KeepsSuffixes(name) ==
    LET n1 == strip(lower(name))
        n2 == RemovePunctuation(n1)
    IN  strip(join(<<" ">>, split(n2)))

normalize_company(name) ==
    LET n1    == strip(lower(name))
        n2    == RemovePunctuation(n1)
        words == SelectSeq(split(n2), LAMBDA w : w \notin COMPANY_SUFFIXES)
    IN  strip(join(<<" ">>, words))

normalize_title(title) ==
    LET t1 == strip(lower(title))
        t2 == RemovePunctuation(t1)
        t3 == replace(t2, "&", <<"a","n","d">>)
    IN  strip(t3)

la_keywords == <<
    <<"l","o","s"," ","a","n","g","e","l","e","s">>, <<"l","a">>,
    <<"b","e","v","e","r","l","y"," ","h","i","l","l","s">>,
    <<"s","a","n","t","a"," ","m","o","n","i","c","a">>,
    <<"c","u","l","v","e","r"," ","c","i","t","y">>,
    <<"p","l","a","y","a"," ","v","i","s","t","a">>,
    <<"v","e","n","i","c","e">>, <<"e","l"," ","s","e","g","u","n","d","o">> >>

sf_keywords == <<
    <<"s","a","n"," ","f","r","a","n","c","i","s","c","o">>, <<"s","f">>,
    <<"b","a","y"," ","a","r","e","a">>, <<"p","a","l","o"," ","a","l","t","o">>,
    <<"m","o","u","n","t","a","i","n"," ","v","i","e","w">>,
    <<"m","e","n","l","o"," ","p","a","r","k">>,
    <<"s","u","n","n","y","v","a","l","e">>, <<"o","a","k","l","a","n","d">>,
    <<"s","a","n"," ","j","o","s","e">> >>

nyc_keywords == <<
    <<"n","e","w"," ","y","o","r","k">>, <<"n","y","c">>,
    <<"m","a","n","h","a","t","t","a","n">>, <<"b","r","o","o","k","l","y","n">> >>

\* normalize_location trying the Bay Area keywords first
normalize_location_BayFirst(location) ==
    LET loc == strip(lower(location))
    IN  IF \E i \in 1..Len(sf_keywords) : Contains(loc, sf_keywords[i])
        THEN <<"s","a","n","_","f","r","a","n","c","i","s","c","o">>
        ELSE IF \E i \in 1..Len(la_keywords) : Contains(loc, la_keywords[i])
        THEN <<"l","o","s","_","a","n","g","e","l","e","s">>
        ELSE IF \E i \in 1..Len(nyc_keywords) : Contains(loc, nyc_keywords[i])
        THEN <<"n","e","w","_","y","o","r","k">>
        ELSE loc

normalize_location(location) ==
    LET loc == strip(lower(location))
    IN  IF \E i \in 1..Len(la_keywords) : Contains(loc, la_keywords[i])
        THEN <<"l","o","s","_","a","n","g","e","l","e","s">>
        ELSE IF \E i \in 1..Len(sf_keywords) : Contains(loc, sf_keywords[i])
        THEN <<"s","a","n","_","f","r","a","n","c","i","s","c","o">>
        ELSE IF \E i \in 1..Len(nyc_keywords) : Contains(loc, nyc_keywords[i])
        THEN <<"n","e","w","_","y","o","r","k">>
        ELSE loc

\* OrEmpty handing an absent value on as it is
OrEmpty_AsIs(s) == s

\* location or ""
OrEmpty(s) == IF Truthy(s) THEN s ELSE <<>>

generate_fuzzy_key(listing) ==
    normalize_company(listing.company) \o <<"|">>
        \o normalize_title(listing.title) \o <<"|">>
        \o normalize_location(OrEmpty(listing.location))

\* ------------------------------------------------------------------------
\* Completeness
\* ------------------------------------------------------------------------

\* _completeness_score counting a description of exactly 100 characters
_completeness_score_From100(listing) ==
      (IF listing.description >= 100 THEN 3 ELSE 0)
    + (IF listing.salary_min # NoneNum THEN 2 ELSE 0)
    + (IF listing.salary_max # NoneNum THEN 2 ELSE 0)
    + (IF Truthy(listing.experience_required) THEN 1 ELSE 0)
    + (IF Truthy(listing.date_posted) THEN 1 ELSE 0)
    + (IF Truthy(listing.company_industry) THEN 1 ELSE 0)

\* The description text is kept as its length only: nothing reads its
\* characters.
_completeness_score(listing) ==
      (IF listing.description > 100 THEN 3 ELSE 0)
    + (IF listing.salary_min # NoneNum THEN 2 ELSE 0)
    + (IF listing.salary_max # NoneNum THEN 2 ELSE 0)
    + (IF Truthy(listing.experience_required) THEN 1 ELSE 0)
    + (IF Truthy(listing.date_posted) THEN 1 ELSE 0)
    + (IF Truthy(listing.company_industry) THEN 1 ELSE 0)

\* ------------------------------------------------------------------------
\* Bounds and inputs
\* ------------------------------------------------------------------------

\* listings scraped over all runs of one behaviour
MaxListings == 3

\* pipeline runs of one behaviour
MaxRuns == 2

\* days the clock may advance between two runs
DayJumps == {0, 31}

\* JobListing(...) as a scraper constructs it at time now, from the arguments
\* <<company, title, location, url, description, salary_min, salary_max,
\*   experience_required>>; the other fields take their defaults
JobListing(args, now) ==
    [ title |-> args[2], company |-> args[1], location |-> args[3],
      description |-> args[5], url |-> args[4],
      salary_min |-> args[6], salary_max |-> args[7],
      experience_required |-> args[8],
      date_posted |-> None, company_industry |-> None,
      date_scraped |-> now,
      fuzzy_key |-> None, is_repost |-> FALSE,
      original_listing_id |-> NoneNum ]

LA == <<"L","A">>

\* what the scrapers can return: constructor arguments without the clock
Scraped == <<
    \* abc|x|            score 0
    <<<<"A","b","c"," ","I","n","c",".">>, <<"x">>, <<>>, "u1", 0,
      NoneNum, NoneNum, None>>,
    \* abcd|x|           score 2
    <<<<"a","b","c","d">>, <<"x">>, <<>>, "u2", 100, 50, NoneNum, None>>,
    \* bcd|x|            score 0
    <<<<"b","c","d">>, <<"x">>, None, "u3", 100, NoneNum, NoneNum, <<>>>>,
    \* abc|x|            score 5
    <<<<"A","B","C">>, <<"X","!">>, <<" ">>, "u4", 101, NoneNum, 90, None>>,
    \* abc|x|los_angeles score 1
    <<<<"a","b","c">>, <<"x">>, LA, "u5", 0, NoneNum, NoneNum, <<"2","y">>>>,
    \* abc|y|los_angeles score 0, the url of the first
    <<<<"a","b","c">>, <<"y">>, LA, "u1", 0, NoneNum, NoneNum, None>>,
    \* abc|xqqqqqq|los_angeles score 0
    <<<<"a","b","c">>, <<"x","q","q","q","q","q","q">>, LA, "u7", 0,
      NoneNum, NoneNum, None>>,
    \* abc|x|new_york    score 0
    <<<<"a","b","c">>, <<"x">>, <<"N","Y","C">>, "u8", 0,
      NoneNum, NoneNum, None>> >>

Construct(p, now) == JobListing(Scraped[p], now)

\* the results of one scrape phase: sequences of at most n scraped listings
Batches(n) == UNION {[1..k -> 1..Len(Scraped)] : k \in 0..n}

\* ------------------------------------------------------------------------
\* Similarity (rapidfuzz fuzz.ratio)
\* ------------------------------------------------------------------------

Max(a, b) == IF a >= b THEN a ELSE b

\* One row of the longest-common-subsequence table: prev is the row of the
\* previous character of s1 (columns 0..Len(s2) stored at 1..Len(s2)+1).
\* Rows are nondecreasing, so the best match of c is its last position.
LcsRow(prev, c, s2) ==
    <<>> \o [j \in 1..(Len(s2) + 1) |->
        LET hits == {k \in 1..(j - 1) : s2[k] = c}
        IN  IF hits = {} THEN prev[j]
            ELSE Max(prev[j],
                     prev[CHOOSE k \in hits : \A q \in hits : q <= k] + 1)]

\* (the test on the row only makes TLC compute it before the next step)
RECURSIVE LcsRows(_, _, _, _)
LcsRows(s1, s2, i, prev) ==
    IF i > Len(s1) THEN prev[Len(s2) + 1]
    ELSE LET row == LcsRow(prev, s1[i], s2)
         IN  IF Len(row) = 0 THEN 0 ELSE LcsRows(s1, s2, i + 1, row)

\* length of the longest common subsequence of s1 and s2
Lcs(s1, s2) == LcsRows(s1, s2, 1, [j \in 1..(Len(s2) + 1) |-> 0])

\* normalized_similarity as the share of s1 that is matched in s2
normalized_similarity_OfFirst(s1, s2) ==
    IF Len(s1) + Len(s2) = 0 THEN <<100, 1>>
    ELSE IF Len(s1) = 0 THEN <<0, 1>>
    ELSE <<100 * Lcs(s1, s2), Len(s1)>>

\* normalized_similarity without the case of two empty strings
normalized_similarity_EmptyZero(s1, s2) ==
    IF Len(s1) + Len(s2) = 0 THEN <<0, 1>>
    ELSE <<200 * Lcs(s1, s2), Len(s1) + Len(s2)>>

\* Indel.normalized_similarity(s1, s2) * 100, the value fuzz.ratio returns:
\* 100 * (1 - (len1 + len2 - 2*lcs) / (len1 + len2)), 100 for two empty
\* strings, kept as the exact fraction <<numerator, denominator>>.
normalized_similarity(s1, s2) ==
    IF Len(s1) + Len(s2) = 0 THEN <<100, 1>>
    ELSE <<200 * Lcs(s1, s2), Len(s1) + Len(s2)>>

\* The strings the scraped listings give rise to: their fuzzy keys and the
\* segments of these keys.
KnownKeys == {generate_fuzzy_key(Construct(p, 0)) : p \in 1..Len(Scraped)}

KnownStrings == UNION {{k} \cup Range(SplitOn(k, "|")) : k \in KnownKeys}

RECURSIVE SeqOfSet(_)
SeqOfSet(S) ==
    IF S = {} THEN <<>>
    ELSE LET x == CHOOSE y \in S : TRUE IN <<x>> \o SeqOfSet(S \ {x})

KnownSeq == SeqOfSet(KnownStrings)

\* normalized_similarity of every pair of the strings of seq
TableOf(seq) ==
    <<>> \o [a \in 1..Len(seq) |->
        <<>> \o [b \in 1..Len(seq) |-> normalized_similarity(seq[a], seq[b])]]

\* the similarities of the known strings, computed once
SimilarityTable == TableOf(KnownSeq)

\* the entry of the table for s1 and s2; their similarity when it has none
Lookup(seq, table, s1, s2) ==
    LET at == {p \in (1..Len(seq)) \X (1..Len(seq)) :
                  seq[p[1]] = s1 /\ seq[p[2]] = s2}
    IN  IF at = {} THEN normalized_similarity(s1, s2)
        ELSE table[(CHOOSE p \in at : TRUE)[1]][(CHOOSE p \in at : TRUE)[2]]

\* fuzz.ratio(s1, s2)
ratio(s1, s2) == Lookup(KnownSeq, SimilarityTable, s1, s2)

\* similarity >= threshold
AtLeast(similarity, threshold) == similarity[1] >= threshold * similarity[2]

\* ------------------------------------------------------------------------
\* State
\* ------------------------------------------------------------------------

VARIABLES
    pc,              \* position of the run
    today,           \* the clock, in days
    runs,            \* pipeline runs started
    scraped_total,   \* listings scraped so far, over all runs
    db,              \* job_listings rows, in rowid order
    listings,        \* heap of the JobListing objects of the current run
    key_writes,      \* per object: assignments to fuzzy_key so far
    all_listings,    \* run(): all_listings (object ids)
    unique,          \* deduplicate_batch: unique
    seen_keys,       \* deduplicate_batch: seen_keys
    cursor,          \* deduplicate_batch: position of the main loop in listings
    unique_listings, \* run(): unique_listings
    new_listings,    \* run(): new_listings
    recent_keys,     \* detect_reposts: recent_keys, in iteration order
    stored,          \* run(): stored
    log,             \* lines written by the deduplication logger
    errors,          \* run(): errors
    scraper,         \* run(): position of the loop over get_active_scrapers()
    scrape_log,      \* lines of log_scraper_success and log_scraper_failure
    run_log,         \* rows of the run log table, as log_run writes them
    enriched,        \* score_listings: enriched_listings
    scored_jobs,     \* score_listings: scored_jobs
    score_errors,    \* score_listings: errors
    calls            \* per listing scored so far: calls of the LLM made for it

vars == <<pc, today, runs, scraped_total, db, listings, key_writes,
          all_listings, unique, seen_keys, cursor, unique_listings, new_listings,
          recent_keys, stored, log, errors, scraper, scrape_log, run_log,
          enriched, scored_jobs, score_errors, calls>>

\* the scrape loop, the run log and the scorer
outer_vars == <<errors, scraper, scrape_log, run_log, enriched, scored_jobs,
                score_errors, calls>>

\* no scraper has failed, no run is logged, nothing is being scored
InitOuter ==
    /\ errors = <<>>
    /\ scraper = 0
    /\ scrape_log = <<>>
    /\ run_log = <<>>
    /\ enriched = <<>>
    /\ scored_jobs = <<>>
    /\ score_errors = 0
    /\ calls = <<>>

dedup_vars == <<unique, seen_keys, cursor>>

Init ==
    /\ pc = "idle"
    /\ today = 0
    /\ runs = 0
    /\ scraped_total = 0
    /\ db = <<>>
    /\ listings = <<>>
    /\ key_writes = <<>>
    /\ all_listings = <<>>
    /\ unique = <<>>
    /\ seen_keys = <<>>
    /\ cursor = 0
    /\ unique_listings = <<>>
    /\ new_listings = <<>>
    /\ recent_keys = <<>>
    /\ stored = 0
    /\ log = <<>>
    /\ InitOuter

\* ------------------------------------------------------------------------
\* database.py
\* ------------------------------------------------------------------------

\* SELECT 1 FROM job_listings WHERE url = ?
url_exists(rows, url) == \E r \in 1..Len(rows) : rows[r].url = url

\* {row["fuzzy_key"]: row["id"] for row in rows}: a dict iterates its keys in
\* the order of their first insertion and holds the value of the last one.
DictOfRows(rows) ==
    LET first == SelectSeq([r \in 1..Len(rows) |-> r],
                           LAMBDA r : \A q \in 1..(r - 1) :
                                         rows[q].fuzzy_key # rows[r].fuzzy_key)
        LastOf(k) == CHOOSE r \in 1..Len(rows) :
                        /\ rows[r].fuzzy_key = k
                        /\ \A q \in (r + 1)..Len(rows) : rows[q].fuzzy_key # k
    IN  [n \in 1..Len(first) |->
            [key |-> rows[first[n]].fuzzy_key,
             id  |-> rows[LastOf(rows[first[n]].fuzzy_key)].id]]

\* SELECT id, fuzzy_key FROM job_listings WHERE fuzzy_key IS NOT NULL
ExistingRows(rows) == SelectSeq(rows, LAMBDA r : r.fuzzy_key # None)

get_existing_fuzzy_keys(rows) == DictOfRows(ExistingRows(rows))

\* ... WHERE fuzzy_key IS NOT NULL AND date_scraped >= cutoff
RecentRows(rows, now, days) ==
    SelectSeq(rows, LAMBDA r : r.fuzzy_key # None /\ r.date_scraped >= now - days)

\* The SELECT has no ORDER BY: the rows come in an order the engine chooses.
Orders(n) == {f \in [1..n -> 1..n] : \A a, b \in 1..n : f[a] = f[b] => a = b}

get_recent_fuzzy_keys(rows, now, days, order) ==
    LET sel == RecentRows(rows, now, days)
    IN  DictOfRows([n \in 1..Len(sel) |-> sel[order[n]]])

\* One INSERT OR IGNORE of store_listings_batch: st holds the table, the
\* connection's total_changes and the count returned.
StoreOne(st, listing) ==
    LET ignored == url_exists(st.rows, listing.url)
        row     == [ id |-> Len(st.rows) + 1,
                     url |-> listing.url,
                     fuzzy_key |-> listing.fuzzy_key,
                     date_scraped |-> listing.date_scraped,
                     is_repost |-> listing.is_repost,
                     original_listing_id |-> listing.original_listing_id ]
        rows2   == IF ignored THEN st.rows ELSE Append(st.rows, row)
        total2  == IF ignored THEN st.total_changes ELSE st.total_changes + 1
    IN  [ rows |-> rows2, total_changes |-> total2,
          inserted |-> IF total2 # 0 THEN st.inserted + 1 ELSE st.inserted ]

RECURSIVE StoreFrom(_, _, _, _)
StoreFrom(st, heap, ids, n) ==
    IF n > Len(ids) THEN st
    ELSE StoreFrom(StoreOne(st, heap[ids[n]]), heap, ids, n + 1)

store_listings_batch(rows, heap, ids) ==
    StoreFrom([rows |-> rows, total_changes |-> 0, inserted |-> 0], heap, ids, 1)

\* ------------------------------------------------------------------------
\* deduplicate_batch
\* ------------------------------------------------------------------------

\* IsDupOf with > in place of >=
IsDupOf_Strict(key, seen_key) ==
    ratio(key, seen_key)[1] > FUZZY_THRESHOLD * ratio(key, seen_key)[2]

\* for seen_key in seen_keys: if similarity >= FUZZY_THRESHOLD
IsDupOf(key, seen_key) == AtLeast(ratio(key, seen_key), FUZZY_THRESHOLD)

\* FirstDup comparing against the latest seen key only
FirstDup_LatestOnly(key, keys) ==
    IF Len(keys) > 0 /\ AtLeast(ratio(key, keys[Len(keys)]), FUZZY_THRESHOLD)
    THEN Len(keys)
    ELSE 0

\* the least element of a non-empty set of positions, 0 for the empty set
First(S) ==
    Once(LAMBDA T : IF T = {} THEN 0 ELSE CHOOSE n \in T : \A m \in T : n <= m, S)

\* index of the first seen key the key is a duplicate of, 0 when there is none
FirstDup(key, keys) == First({j \in 1..Len(keys) : IsDupOf(key, keys[j])})

\* for i, u in enumerate(unique): if u.fuzzy_key == seen_key: existing_idx = i
\* (1-based here; 0 stands for existing_idx = None)
ExistingIdx(heap, uniq, seen_key) ==
    Once(LAMBDA key :
            First({k \in 1..Len(uniq) : heap[uniq[k]].fuzzy_key = key}),
         seen_key)

\* MoreComplete with >= in place of >
MoreComplete_OrEqual(incoming, existing) ==
    _completeness_score(incoming) >= _completeness_score(existing)

\* _completeness_score(listing) > _completeness_score(unique[existing_idx])
MoreComplete(incoming, existing) ==
    _completeness_score(incoming) > _completeness_score(existing)

\* DedupStart relying on its caller for the keys
DedupStart_KeysFromCaller ==
    /\ pc = "dedup"
    /\ IF all_listings = <<>>
       THEN /\ unique_listings' = <<>>
            /\ pc' = "filter"
            /\ UNCHANGED dedup_vars
       ELSE /\ unique' = <<>>
            /\ seen_keys' = <<>>
            /\ cursor' = 1
            /\ pc' = "dedup_loop"
            /\ UNCHANGED unique_listings
    /\ UNCHANGED <<today, runs, scraped_total, db, listings, key_writes,
                   all_listings, new_listings, recent_keys, stored, log>>
    /\ UNCHANGED outer_vars

\* DedupStart entering the loop for the empty batch too
DedupStart_NoEarlyReturn ==
    /\ pc = "dedup"
    /\ listings' = [o \in DOMAIN listings |->
          [listings[o] EXCEPT !.fuzzy_key = generate_fuzzy_key(listings[o])]]
    /\ key_writes' = [o \in DOMAIN key_writes |-> key_writes[o] + 1]
    /\ unique' = <<>>
    /\ seen_keys' = <<>>
    /\ cursor' = 1
    /\ pc' = "dedup_loop"
    /\ UNCHANGED <<today, runs, scraped_total, db, all_listings,
                   unique_listings, new_listings, recent_keys, stored, log>>
    /\ UNCHANGED outer_vars

\* lines 82-91: the empty batch returns at once; otherwise every listing's
\* fuzzy_key is assigned and the loop state is set up
DedupStart ==
    /\ pc = "dedup"
    /\ IF all_listings = <<>>
       THEN /\ unique_listings' = <<>>
            /\ pc' = "filter"
            /\ UNCHANGED <<listings, key_writes, dedup_vars>>
       ELSE /\ listings' = [o \in DOMAIN listings |->
                  IF \E n \in 1..Len(all_listings) : all_listings[n] = o
                  THEN [listings[o] EXCEPT
                            !.fuzzy_key = generate_fuzzy_key(listings[o])]
                  ELSE listings[o]]
            /\ key_writes' = [o \in DOMAIN key_writes |->
                  IF \E n \in 1..Len(all_listings) : all_listings[n] = o
                  THEN key_writes[o] + 1 ELSE key_writes[o]]
            /\ unique' = <<>>
            /\ seen_keys' = <<>>
            /\ cursor' = 1
            /\ pc' = "dedup_loop"
            /\ UNCHANGED unique_listings
    /\ UNCHANGED <<today, runs, scraped_total, db, all_listings, new_listings,
                   recent_keys, stored, log>>
    /\ UNCHANGED outer_vars

\* DedupStep making the key of a replacing listing the key of its cluster
DedupStep_TracksSurvivor ==
    /\ pc = "dedup_loop"
    /\ cursor <= Len(all_listings)
    /\ LET listing == all_listings[cursor]
           key     == listings[listing].fuzzy_key
           dup     == FirstDup(key, seen_keys)
       IN  IF dup # 0
           THEN LET existing_idx == ExistingIdx(listings, unique, seen_keys[dup])
                    replaces == /\ existing_idx # 0
                                /\ MoreComplete(listings[listing],
                                                listings[unique[existing_idx]])
                IN  /\ unique' = IF replaces
                                 THEN [unique EXCEPT ![existing_idx] = listing]
                                 ELSE unique
                    /\ seen_keys' = IF replaces
                                    THEN [seen_keys EXCEPT ![dup] = key]
                                    ELSE seen_keys
           ELSE /\ unique' = Append(unique, listing)
                /\ seen_keys' = Append(seen_keys, key)
    /\ cursor' = cursor + 1
    /\ UNCHANGED <<pc, today, runs, scraped_total, db, listings, key_writes,
                   all_listings, unique_listings, new_listings, recent_keys,
                   stored, log>>
    /\ UNCHANGED outer_vars

\* lines 93-111: one iteration of the loop over listings
DedupStep ==
    /\ pc = "dedup_loop"
    /\ cursor <= Len(all_listings)
    /\ LET listing == all_listings[cursor]
           key     == listings[listing].fuzzy_key
           dup     == FirstDup(key, seen_keys)
       IN  IF dup # 0
           THEN LET existing_idx == ExistingIdx(listings, unique, seen_keys[dup])
                IN  /\ unique' =
                          IF /\ existing_idx # 0
                             /\ MoreComplete(listings[listing],
                                             listings[unique[existing_idx]])
                          THEN [unique EXCEPT ![existing_idx] = listing]
                          ELSE unique
                    /\ UNCHANGED seen_keys
           ELSE /\ unique' = Append(unique, listing)
                /\ seen_keys' = Append(seen_keys, key)
    /\ cursor' = cursor + 1
    /\ UNCHANGED <<pc, today, runs, scraped_total, db, listings, key_writes,
                   all_listings, unique_listings, new_listings, recent_keys,
                   stored, log>>
    /\ UNCHANGED outer_vars

\* DedupReturn shrinking the caller's list to the survivors
DedupReturn_InPlace ==
    /\ pc = "dedup_loop"
    /\ cursor > Len(all_listings)
    /\ log' = IF Len(all_listings) - Len(unique) > 0
              THEN Append(log, <<"Deduplication", Len(all_listings), Len(unique)>>)
              ELSE log
    /\ all_listings' = unique
    /\ unique_listings' = unique
    /\ pc' = "filter"
    /\ UNCHANGED <<today, runs, scraped_total, db, listings, key_writes,
                   dedup_vars, new_listings, recent_keys, stored>>
    /\ UNCHANGED outer_vars

\* lines 113-117: log when duplicates were removed, return unique
DedupReturn ==
    /\ pc = "dedup_loop"
    /\ cursor > Len(all_listings)
    /\ log' = IF Len(all_listings) - Len(unique) > 0
              THEN Append(log, <<"Deduplication", Len(all_listings), Len(unique)>>)
              ELSE log
    /\ unique_listings' = unique
    /\ pc' = "filter"
    /\ UNCHANGED <<today, runs, scraped_total, db, listings, key_writes,
                   all_listings, dedup_vars, new_listings, recent_keys, stored>>
    /\ UNCHANGED outer_vars

\* ------------------------------------------------------------------------
\* filter_already_seen
\* ------------------------------------------------------------------------

\* IsSeen with > in place of >=
IsSeen_Strict(listing, existing_keys) ==
    \E n \in 1..Len(existing_keys) :
        ratio(OrEmpty(listing.fuzzy_key), existing_keys[n].key)[1]
            > FUZZY_THRESHOLD
                * ratio(OrEmpty(listing.fuzzy_key), existing_keys[n].key)[2]

\* for existing_key in existing_keys: if similarity >= FUZZY_THRESHOLD
IsSeen(listing, existing_keys) ==
    \E n \in 1..Len(existing_keys) :
        AtLeast(ratio(OrEmpty(listing.fuzzy_key), existing_keys[n].key),
                FUZZY_THRESHOLD)

\* PassesFilter without the key test
PassesFilter_UrlOnly(rows, listing) == ~url_exists(rows, listing.url)

\* PassesFilter without the url test
PassesFilter_KeyOnly(rows, listing) ==
    ~IsSeen(listing, get_existing_fuzzy_keys(rows))

\* the listing is appended to new_listings
PassesFilter(rows, listing) ==
    /\ ~url_exists(rows, listing.url)
    /\ ~IsSeen(listing, get_existing_fuzzy_keys(rows))

filter_already_seen(rows, heap, ids) ==
    SelectSeq(ids, LAMBDA o : PassesFilter(rows, heap[o]))

\* FilterAlreadySeen persisting the listings it lets through
FilterAlreadySeen_Persists ==
    /\ pc = "filter"
    /\ new_listings' = filter_already_seen(db, listings, unique_listings)
    /\ db' = store_listings_batch(db, listings, new_listings').rows
    /\ log' = Append(log, <<"Already-seen filter", Len(unique_listings),
                            Len(new_listings')>>)
    /\ pc' = "detect"
    /\ UNCHANGED <<today, runs, scraped_total, listings, key_writes,
                   all_listings, dedup_vars, unique_listings, recent_keys,
                   stored>>
    /\ UNCHANGED outer_vars

\* main.py line 103
FilterAlreadySeen ==
    /\ pc = "filter"
    /\ new_listings' = filter_already_seen(db, listings, unique_listings)
    /\ log' = Append(log, <<"Already-seen filter", Len(unique_listings),
                            Len(new_listings')>>)
    /\ pc' = "detect"
    /\ UNCHANGED <<today, runs, scraped_total, db, listings, key_writes,
                   all_listings, dedup_vars, unique_listings, recent_keys,
                   stored>>
    /\ UNCHANGED outer_vars

\* ------------------------------------------------------------------------
\* detect_reposts
\* ------------------------------------------------------------------------

\* RepostMatch satisfied by either threshold
RepostMatch_Either(key, recent_key) ==
    LET listing_parts == SplitOn(key, "|")
        recent_parts  == SplitOn(recent_key, "|")
    IN  /\ Len(listing_parts) >= 2
        /\ Len(recent_parts) >= 2
        /\ \/ AtLeast(ratio(listing_parts[1], recent_parts[1]), 90)
           \/ AtLeast(ratio(listing_parts[2], recent_parts[2]), 85)

\* lines 163-170: company and title segments both clear their thresholds
RepostMatch(key, recent_key) ==
    LET listing_parts == SplitOn(key, "|")
        recent_parts  == SplitOn(recent_key, "|")
    IN  /\ Len(listing_parts) >= 2
        /\ Len(recent_parts) >= 2
        /\ AtLeast(ratio(listing_parts[1], recent_parts[1]), 90)
        /\ AtLeast(ratio(listing_parts[2], recent_parts[2]), 85)

\* listing.fuzzy_key or generate_fuzzy_key(listing)
RepostKey(listing) ==
    IF Truthy(listing.fuzzy_key) THEN listing.fuzzy_key
    ELSE generate_fuzzy_key(listing)

\* the greatest element of a non-empty set of positions, 0 for the empty set
Last(S) == IF S = {} THEN 0 ELSE CHOOSE n \in S : \A m \in S : m <= n

\* FirstRepost without the break: the last matching entry
FirstRepost_NoBreak(key, recent) ==
    Last({n \in 1..Len(recent) : RepostMatch(key, recent[n].key)})

\* position in recent.items() at which the scan breaks, 0 when it never does
FirstRepost(key, recent) ==
    First({n \in 1..Len(recent) : RepostMatch(key, recent[n].key)})

\* lines 171-172 for the entry at position n of recent (0: no entry matched)
Flag(listing, recent, n) ==
    IF n # 0
    THEN [listing EXCEPT !.is_repost = TRUE,
                         !.original_listing_id = recent[n].id]
    ELSE listing

\* Flag adopting the key of the entry it matched
Flag_AdoptsKey(listing, recent, n) ==
    IF n # 0
    THEN [listing EXCEPT !.is_repost = TRUE,
                         !.original_listing_id = recent[n].id,
                         !.fuzzy_key = recent[n].key]
    ELSE listing

\* DetectOne adopting the key of the entry it matched
DetectOne_AdoptsKey(listing, recent) ==
    Flag_AdoptsKey(listing, recent, FirstRepost(RepostKey(listing), recent))

\* the body of the outer loop for one listing
DetectOne(listing, recent) ==
    Flag(listing, recent, FirstRepost(RepostKey(listing), recent))

\* the line of lines 174-177 for the entry at position m (0: none matched)
RepostLine(recent, m) ==
    IF m # 0 THEN <<<<"Repost detected", recent[m].id, 0>>>> ELSE <<>>

\* lines 173-181: one line per repost found, then their count
RECURSIVE RepostLines(_, _, _, _)
RepostLines(heap, ids, recent, n) ==
    IF n > Len(ids) THEN <<>>
    ELSE RepostLine(recent, FirstRepost(RepostKey(heap[ids[n]]), recent))
            \o RepostLines(heap, ids, recent, n + 1)

Summary(lines) ==
    IF Len(lines) > 0
    THEN lines \o <<<<"Repost detection", Len(lines), 0>>>>
    ELSE <<>>

\* main.py line 107
DetectReposts ==
    /\ pc = "detect"
    /\ \E order \in Orders(Len(RecentRows(db, today, 30))) :
          recent_keys' = get_recent_fuzzy_keys(db, today, 30, order)
    /\ listings' = [o \in DOMAIN listings |->
          IF \E n \in 1..Len(new_listings) : new_listings[n] = o
          THEN DetectOne(listings[o], recent_keys')
          ELSE listings[o]]
    /\ log' = log \o Summary(RepostLines(listings, new_listings, recent_keys', 1))
    /\ pc' = "store"
    /\ UNCHANGED <<today, runs, scraped_total, db, key_writes, all_listings,
                   dedup_vars, unique_listings, new_listings, stored>>
    /\ UNCHANGED outer_vars

\* ------------------------------------------------------------------------
\* main.py run(): the stages around the deduplication core
\* ------------------------------------------------------------------------

\* lines 70-84: a run starts and the scrapers construct its listings
Scrape ==
    /\ pc = "idle"
    /\ runs < MaxRuns
    /\ \E d \in (IF runs = 0 THEN {0} ELSE DayJumps) : today' = today + d
    /\ \E batch \in Batches(MaxListings - scraped_total) :
          /\ listings' = [o \in 1..Len(batch) |-> Construct(batch[o], today')]
          /\ key_writes' = [o \in 1..Len(batch) |-> 0]
          /\ all_listings' = [o \in 1..Len(batch) |-> o]
          /\ scraped_total' = scraped_total + Len(batch)
    /\ runs' = runs + 1
    /\ unique' = <<>>
    /\ seen_keys' = <<>>
    /\ cursor' = 0
    /\ unique_listings' = <<>>
    /\ new_listings' = <<>>
    /\ recent_keys' = <<>>
    /\ stored' = 0
    /\ log' = <<>>
    /\ pc' = "assign_keys"
    /\ UNCHANGED db
    /\ UNCHANGED outer_vars

\* AssignKeys with a key generator that normalizes the company in place
AssignKeys_NormalizesInPlace ==
    /\ pc = "assign_keys"
    /\ listings' = [o \in DOMAIN listings |->
          IF ~Truthy(listings[o].fuzzy_key)
          THEN [listings[o] EXCEPT
                    !.fuzzy_key = generate_fuzzy_key(listings[o]),
                    !.company = normalize_company(listings[o].company)]
          ELSE listings[o]]
    /\ key_writes' = [o \in DOMAIN key_writes |->
          IF ~Truthy(listings[o].fuzzy_key)
          THEN key_writes[o] + 1 ELSE key_writes[o]]
    /\ pc' = "dedup"
    /\ UNCHANGED <<today, runs, scraped_total, db, all_listings, dedup_vars,
                   unique_listings, new_listings, recent_keys, stored, log>>
    /\ UNCHANGED outer_vars

\* lines 92-94
AssignKeys ==
    /\ pc = "assign_keys"
    /\ listings' = [o \in DOMAIN listings |->
          IF ~Truthy(listings[o].fuzzy_key)
          THEN [listings[o] EXCEPT !.fuzzy_key = generate_fuzzy_key(listings[o])]
          ELSE listings[o]]
    /\ key_writes' = [o \in DOMAIN key_writes |->
          IF ~Truthy(listings[o].fuzzy_key)
          THEN key_writes[o] + 1 ELSE key_writes[o]]
    /\ pc' = "dedup"
    /\ UNCHANGED <<today, runs, scraped_total, db, all_listings, dedup_vars,
                   unique_listings, new_listings, recent_keys, stored, log>>
    /\ UNCHANGED outer_vars

\* Store writing the listings back with their repost fields at the defaults
Store_ResetsFlags ==
    /\ pc = "store"
    /\ LET st == store_listings_batch(db, listings, new_listings)
       IN  /\ db' = st.rows
           /\ stored' = st.inserted
    /\ listings' = [o \in DOMAIN listings |->
          [listings[o] EXCEPT !.is_repost = FALSE,
                              !.original_listing_id = NoneNum]]
    /\ pc' = "idle"
    /\ UNCHANGED <<today, runs, scraped_total, key_writes,
                   all_listings, dedup_vars, unique_listings, new_listings,
                   recent_keys, log>>
    /\ UNCHANGED outer_vars

\* line 113
Store ==
    /\ pc = "store"
    /\ LET st == store_listings_batch(db, listings, new_listings)
       IN  /\ db' = st.rows
           /\ stored' = st.inserted
    /\ pc' = "idle"
    /\ UNCHANGED <<today, runs, scraped_total, listings, key_writes,
                   all_listings, dedup_vars, unique_listings, new_listings,
                   recent_keys, log>>
    /\ UNCHANGED outer_vars

Next ==
    \/ Scrape
    \/ AssignKeys
    \/ DedupStart
    \/ DedupStep
    \/ DedupReturn
    \/ FilterAlreadySeen
    \/ DetectReposts
    \/ Store

Spec == Init /\ [][Next]_vars

\* ------------------------------------------------------------------------
\* deduplicate_batch called on its own, on listings as the scrapers
\* construct them (fuzzy_key not yet assigned)
\* ------------------------------------------------------------------------

InitCall ==
    /\ pc = "dedup"
    /\ today = 0
    /\ runs = 0
    /\ \E batch \in Batches(MaxListings) :
          /\ listings = [o \in 1..Len(batch) |-> Construct(batch[o], 0)]
          /\ key_writes = [o \in 1..Len(batch) |-> 0]
          /\ all_listings = [o \in 1..Len(batch) |-> o]
          /\ scraped_total = Len(batch)
    /\ db = <<>>
    /\ unique = <<>>
    /\ seen_keys = <<>>
    /\ cursor = 0
    /\ unique_listings = <<>>
    /\ new_listings = <<>>
    /\ recent_keys = <<>>
    /\ stored = 0
    /\ log = <<>>
    /\ InitOuter

NextCall ==
    \/ DedupStart
    \/ DedupStep
    \/ DedupReturn

SpecCall == InitCall /\ [][NextCall]_vars

\* ------------------------------------------------------------------------
\* The key stage on its own: one listing whose company, title or location
\* ranges over all short strings of a few characters and over some places
\* ------------------------------------------------------------------------

\* length of the generated input strings
MaxLen == 3

StringsOver(chars, n) == UNION {[1..k -> chars] : k \in 0..n}

CompanyInputs == StringsOver({"C", "o", ".", " ", "|"}, MaxLen)

TitleInputs == StringsOver({"A", "b", "&", " ", "|"}, MaxLen)

Places == <<
    <<"S","a","n","t","a"," ","M","o","n","i","c","a",","," ","C","A">>,
    <<"A","u","s","t","i","n",","," ","T","X">>,
    <<"l","o","s","_","a","n","g","e","l","e","s">>,
    <<"s","a","n","_","f","r","a","n","c","i","s","c","o">>,
    <<"n","e","w","_","y","o","r","k">>,
    <<"O","a","k","l","a","n","d">>,
    <<" "," ","S","F"," ">>,
    <<"N","Y","C">>,
    <<"P","a","l","o"," ","A","l","t","o"," ","o","r"," ","V","e","n","i","c","e">>,
    <<"B","r","o","o","k","l","y","n",","," ","n","e","a","r"," ","M","e","n","l","o"," ","P","a","r","k">>,
    <<"R","e","m","o","t","e"," ","|"," ","U","S">> >>

LocationInputs ==
    {None} \cup Range(Places) \cup StringsOver({"L", "a", " ", "|"}, MaxLen)
        \cup Range(la_keywords) \cup Range(sf_keywords) \cup Range(nyc_keywords)

\* <<company, title, location>>
KeyInputs ==
    {<<c, <<"x">>, <<>>>> : c \in CompanyInputs}
        \cup {<<<<"a">>, t, <<>>>> : t \in TitleInputs}
        \cup {<<<<"a">>, <<"x">>, l>> : l \in LocationInputs}

InitKeys ==
    /\ pc = "assign_keys"
    /\ today = 0
    /\ runs = 1
    /\ \E inp \in KeyInputs :
          listings = <<JobListing(<<inp[1], inp[2], inp[3], "u1", 0,
                                    NoneNum, NoneNum, None>>, 0)>>
    /\ key_writes = <<0>>
    /\ all_listings = <<1>>
    /\ scraped_total = 1
    /\ db = <<>>
    /\ unique = <<>>
    /\ seen_keys = <<>>
    /\ cursor = 0
    /\ unique_listings = <<>>
    /\ new_listings = <<>>
    /\ recent_keys = <<>>
    /\ stored = 0
    /\ log = <<>>
    /\ InitOuter

NextKeys ==
    \/ AssignKeys
    \/ DedupStart

SpecKeys == InitKeys /\ [][NextKeys]_vars

\* ------------------------------------------------------------------------
\* deduplicate_batch called on two listings of one company and title whose
\* scored fields range over absent, empty and present values
\* ------------------------------------------------------------------------

\* the six fields _completeness_score reads
ScoredFields ==
    [ description : {0, 100, 101},
      salary_min : {NoneNum, 0},
      salary_max : {NoneNum, 90},
      experience_required : {None, <<>>, <<"2","y">>},
      date_posted : {None, <<>>, <<"1","d">>},
      company_industry : {None, <<"a","i">>} ]

\* JobListing(...) with the scored fields f, as a scraper that knows the
\* posting date and the industry constructs it
Scored(f, url) ==
    [ JobListing(<<<<"a","b","c">>, <<"x">>, <<>>, url, f.description,
                   f.salary_min, f.salary_max, f.experience_required>>, 0)
        EXCEPT !.date_posted = f.date_posted,
               !.company_industry = f.company_industry ]

InitScore ==
    /\ pc = "dedup"
    /\ today = 0
    /\ runs = 0
    /\ \E f \in ScoredFields, g \in ScoredFields :
          /\ f.experience_required = None
          /\ f.date_posted = None
          /\ f.company_industry = None
          /\ f.salary_max = NoneNum
          /\ listings = <<Scored(f, "u1"), Scored(g, "u2")>>
    /\ key_writes = <<0, 0>>
    /\ all_listings = <<1, 2>>
    /\ scraped_total = 2
    /\ db = <<>>
    /\ unique = <<>>
    /\ seen_keys = <<>>
    /\ cursor = 0
    /\ unique_listings = <<>>
    /\ new_listings = <<>>
    /\ recent_keys = <<>>
    /\ stored = 0
    /\ log = <<>>
    /\ InitOuter

SpecScore == InitScore /\ [][NextCall]_vars

\* ------------------------------------------------------------------------
\* filter_already_seen and detect_reposts called on listings as the scrapers
\* construct them (fuzzy_key not assigned, location possibly None), on a
\* table an earlier run has stored
\* ------------------------------------------------------------------------

Unkeyed == <<
    \* bcd|x|, location None
    Scraped[3],
    \* bcd|x|, location ""
    <<<<"b","c","d">>, <<"x">>, <<>>, "u9", 0, NoneNum, NoneNum, None>>,
    \* abc|x|los_angeles
    Scraped[5],
    \* abc|x|new_york
    Scraped[8] >>

\* listings handed over in one call, or scraped by the earlier run
MaxCall == 2

UnkeyedBatches == UNION {[1..k -> 1..Len(Unkeyed)] : k \in 0..MaxCall}

\* the listing as run() hands it to the stages after line 94
Keyed(listing) == [listing EXCEPT !.fuzzy_key = generate_fuzzy_key(listing)]

\* the rows an earlier run has stored for the batch it scraped
StoredBy(batch) ==
    store_listings_batch(<<>>,
        [o \in 1..Len(batch) |-> Keyed(JobListing(Unkeyed[batch[o]], 0))],
        [o \in 1..Len(batch) |-> o]).rows

InitStages ==
    /\ pc = "filter"
    /\ today = 0
    /\ runs = 1
    /\ \E earlier \in UnkeyedBatches : db = StoredBy(earlier)
    /\ \E batch \in UnkeyedBatches :
          /\ listings = [o \in 1..Len(batch) |-> JobListing(Unkeyed[batch[o]], 0)]
          /\ key_writes = [o \in 1..Len(batch) |-> 0]
          /\ all_listings = [o \in 1..Len(batch) |-> o]
          /\ unique_listings = [o \in 1..Len(batch) |-> o]
          /\ scraped_total = Len(batch)
    /\ unique = <<>>
    /\ seen_keys = <<>>
    /\ cursor = 0
    /\ new_listings = <<>>
    /\ recent_keys = <<>>
    /\ stored = 0
    /\ log = <<>>
    /\ InitOuter

NextStages ==
    \/ FilterAlreadySeen
    \/ DetectReposts
    \/ Store

SpecStages == InitStages /\ [][NextStages]_vars

\* ------------------------------------------------------------------------
\* deduplicate_batch called on batches of the listings of one opening as
\* several sources word it
\* ------------------------------------------------------------------------

\* length of these batches
MaxBatch == 3

Acme == <<"A","c","m","e">>

AcmeInc == <<"A","c","m","e"," ","I","n","c",".">>

OpsAssociate == <<"O","p","s"," ","A","s","s","o","c","i","a","t","e">>

\* constructor arguments, as in Scraped
Wordings == <<
    <<AcmeInc, OpsAssociate, <<"S","a","n","t","a"," ","M","o","n","i","c","a">>, "w1", 0, NoneNum, NoneNum, None>>,
    <<Acme, OpsAssociate, <<"L","o","s"," ","A","n","g","e","l","e","s">>, "w2", 0, NoneNum, NoneNum, None>>,
    <<Acme, OpsAssociate, <<"A","u","s","t","i","n",","," ","T","X">>, "w3", 0, NoneNum, NoneNum, None>>,
    <<Acme, <<"O","p","s"," ","L","e","a","d">>, <<"L","o","s"," ","A","n","g","e","l","e","s">>, "w4", 0, NoneNum, NoneNum, None>> >>

InitWordings ==
    /\ pc = "dedup"
    /\ today = 0
    /\ runs = 0
    /\ \E batch \in UNION {[1..k -> 1..Len(Wordings)] : k \in 0..MaxBatch} :
          /\ listings = [o \in 1..Len(batch) |-> JobListing(Wordings[batch[o]], 0)]
          /\ key_writes = [o \in 1..Len(batch) |-> 0]
          /\ all_listings = [o \in 1..Len(batch) |-> o]
          /\ scraped_total = Len(batch)
    /\ db = <<>>
    /\ unique = <<>>
    /\ seen_keys = <<>>
    /\ cursor = 0
    /\ unique_listings = <<>>
    /\ new_listings = <<>>
    /\ recent_keys = <<>>
    /\ stored = 0
    /\ log = <<>>
    /\ InitOuter

SpecWordings == InitWordings /\ [][NextCall]_vars

\* ------------------------------------------------------------------------
\* A run followed by runs in which the scrapers return the same listings
\* ------------------------------------------------------------------------

\* the first run: the scrapers return any batch
ScrapeFirst ==
    /\ runs = 0
    /\ Scrape

\* a later run: the scrapers construct the listings of the run before anew
ScrapeAgain ==
    /\ pc = "idle"
    /\ runs > 0
    /\ runs < MaxRuns
    /\ \E d \in DayJumps : today' = today + d
    /\ listings' = [o \in DOMAIN listings |->
          [listings[o] EXCEPT !.date_scraped = today',
                              !.fuzzy_key = None,
                              !.is_repost = FALSE,
                              !.original_listing_id = NoneNum]]
    /\ key_writes' = [o \in DOMAIN listings |-> 0]
    /\ runs' = runs + 1
    /\ unique' = <<>>
    /\ seen_keys' = <<>>
    /\ cursor' = 0
    /\ unique_listings' = <<>>
    /\ new_listings' = <<>>
    /\ recent_keys' = <<>>
    /\ stored' = 0
    /\ log' = <<>>
    /\ pc' = "assign_keys"
    /\ UNCHANGED <<scraped_total, db, all_listings>>
    /\ UNCHANGED outer_vars

NextRerun ==
    \/ ScrapeFirst
    \/ ScrapeAgain
    \/ AssignKeys
    \/ DedupStart
    \/ DedupStep
    \/ DedupReturn
    \/ FilterAlreadySeen
    \/ DetectReposts
    \/ Store

SpecRerun == Init /\ [][NextRerun]_vars

\* ------------------------------------------------------------------------
\* run(), with the loop over the scrapers taken one scraper at a time and
\* the run log written at the end
\* ------------------------------------------------------------------------

\* get_active_scrapers(): the name of each scraper, in the order of the list
get_active_scrapers == <<"YC Work at a Startup", "Built In", "startups.gallery",
                         "LinkedIn (via SerpAPI)", "Indeed (via SerpAPI)">>

\* listings one scraper returns at most
MaxResults == 2

\* the entries of Scraped the scrapers find: two postings of one job
Found == <<2, 3>>

\* pipeline runs of one behaviour in which the scrapers are taken one by one
MaxScrapeRuns == 1

\* what scraper.scrape() may return when n more listings fit the bound
Results(n) ==
    UNION {[1..k -> Range(Found)] :
              k \in 0..(IF n < MaxResults THEN n ELSE MaxResults)}

\* scoring state the scrape actions leave alone
scorer_vars == <<enriched, scored_jobs, score_errors, calls>>

\* run() up to the loop over the scrapers
ScrapeBegin ==
    /\ pc = "idle"
    /\ scraper = 0
    /\ runs < MaxScrapeRuns
    /\ \E d \in (IF runs = 0 THEN {0} ELSE DayJumps) : today' = today + d
    /\ runs' = runs + 1
    /\ errors' = <<>>
    /\ all_listings' = <<>>
    /\ listings' = <<>>
    /\ key_writes' = <<>>
    /\ scrape_log' = <<>>
    /\ scraper' = 1
    /\ unique' = <<>>
    /\ seen_keys' = <<>>
    /\ cursor' = 0
    /\ unique_listings' = <<>>
    /\ new_listings' = <<>>
    /\ recent_keys' = <<>>
    /\ stored' = 0
    /\ log' = <<>>
    /\ pc' = "scrape"
    /\ UNCHANGED <<scraped_total, db, run_log, scorer_vars>>

\* one turn of the loop: scraper.scrape() returns its results
ScraperReturns ==
    /\ pc = "scrape"
    /\ scraper <= Len(get_active_scrapers)
    /\ \E results \in Results(MaxListings - scraped_total) :
          /\ listings' = listings \o
                [o \in 1..Len(results) |-> Construct(results[o], today)]
          /\ key_writes' = key_writes \o [o \in 1..Len(results) |-> 0]
          /\ all_listings' = all_listings \o
                [o \in 1..Len(results) |-> Len(listings) + o]
          /\ scraped_total' = scraped_total + Len(results)
          /\ scrape_log' = Append(scrape_log,
                [scraper |-> get_active_scrapers[scraper], failed |-> FALSE,
                 count |-> Len(results)])
    /\ scraper' = scraper + 1
    /\ UNCHANGED <<pc, today, runs, db, dedup_vars, unique_listings,
                   new_listings, recent_keys, stored, log, errors, run_log,
                   scorer_vars>>

\* one turn of the loop in which the exception of a failing scraper
\* leaves the loop
ScraperRaises_Propagates ==
    /\ pc = "scrape"
    /\ scraper <= Len(get_active_scrapers)
    /\ scrape_log' = Append(scrape_log,
          [scraper |-> get_active_scrapers[scraper], failed |-> TRUE,
           count |-> 0])
    /\ scraper' = 0
    /\ pc' = "idle"
    /\ UNCHANGED <<today, runs, scraped_total, db, listings, key_writes,
                   all_listings, dedup_vars, unique_listings, new_listings,
                   recent_keys, stored, log, errors, run_log, scorer_vars>>

\* one turn of the loop: the scraper raises inside the with block
ScraperRaises ==
    /\ pc = "scrape"
    /\ scraper <= Len(get_active_scrapers)
    /\ errors' = Append(errors, get_active_scrapers[scraper])
    /\ scrape_log' = Append(scrape_log,
          [scraper |-> get_active_scrapers[scraper], failed |-> TRUE,
           count |-> 0])
    /\ scraper' = scraper + 1
    /\ UNCHANGED <<pc, today, runs, scraped_total, db, listings, key_writes,
                   all_listings, dedup_vars, unique_listings, new_listings,
                   recent_keys, stored, log, run_log, scorer_vars>>

\* the loop is over: the step is logged and the run goes on to the keys
ScrapeEnd ==
    /\ pc = "scrape"
    /\ scraper > Len(get_active_scrapers)
    /\ pc' = "assign_keys"
    /\ UNCHANGED <<today, runs, scraped_total, db, listings, key_writes,
                   all_listings, dedup_vars, unique_listings, new_listings,
                   recent_keys, stored, log, outer_vars>>

\* the three later phases run() guards, with the entry each adds to errors
LaterPhases == <<"Listing health check", "Google Sheets sync", "Email digest">>

\* the entries of LaterPhases whose phase is in failing, in the order of run()
LaterErrors(failing) == SelectSeq(LaterPhases, LAMBDA phase : phase \in failing)

\* run() after the listings are stored: the later phases, some of which may
\* fail and are caught, and the run log row
LogRun ==
    /\ pc = "idle"
    /\ scraper > Len(get_active_scrapers)
    /\ \E failing \in SUBSET Range(LaterPhases) :
          /\ errors' = errors \o LaterErrors(failing)
          /\ run_log' = Append(run_log,
                [listings_scraped |-> Len(all_listings),
                 listings_new |-> Len(new_listings),
                 errors |-> errors'])
    /\ scraper' = 0
    /\ UNCHANGED <<pc, today, runs, scraped_total, db, listings, key_writes,
                   all_listings, dedup_vars, unique_listings, new_listings,
                   recent_keys, stored, log, scrape_log, scorer_vars>>

NextScrapers ==
    \/ ScrapeBegin
    \/ ScraperReturns
    \/ ScraperRaises
    \/ ScrapeEnd
    \/ AssignKeys
    \/ DedupStart
    \/ DedupStep
    \/ DedupReturn
    \/ FilterAlreadySeen
    \/ DetectReposts
    \/ Store
    \/ LogRun

SpecScrapers == Init /\ [][NextScrapers]_vars

\* every step of run() that can be taken is taken in the end
FairSpecScrapers == SpecScrapers /\ WF_vars(NextScrapers)

\* ------------------------------------------------------------------------
\* score_listings, one call of the LLM at a time
\* ------------------------------------------------------------------------

\* listings handed to score_listings at most
MaxEnriched == 3

\* the lists score_listings may be given: entries of Scraped, repeats included
EnrichedInputs == UNION {[1..k -> Range(Found)] : k \in 0..MaxEnriched}

\* what one call of the API may come to: a JSON object with a "score", a JSON
\* object without one, a JSON array that holds the string "score", a text
\* that is no JSON, an error of the API
Responses == {"object with score", "object without score", "array with score",
              "not JSON", "API error"}

\* _call_claude: the parsed response, None when the call or json.loads raised
\* or when "score" is not in the result
_call_claude(response) ==
    IF response = "object with score" THEN <<"dict">>
    ELSE IF response = "array with score" THEN <<"list">>
    ELSE None

\* everything score_listings leaves alone, pc apart
pipeline_vars == <<today, runs, scraped_total, db, listings, key_writes,
                   all_listings, dedup_vars, unique_listings, new_listings,
                   recent_keys, stored, log, errors, scraper, scrape_log,
                   run_log>>

\* _score_single from `if result is None: return None` on, and what
\* score_listings does with its outcome: result.get raises on a list, which
\* score_listings catches
Conclude(listing, result) ==
    IF result = <<"dict">>
    THEN /\ scored_jobs' = Append(scored_jobs, [listing |-> listing])
         /\ UNCHANGED score_errors
    ELSE /\ score_errors' = score_errors + 1
         /\ UNCHANGED scored_jobs

\* lines 91-93: no API key, nothing is scored
ScoreWithoutKey ==
    /\ pc = "score_listings"
    /\ pc' = "scored"
    /\ scored_jobs' = <<>>
    /\ UNCHANGED <<pipeline_vars, enriched, score_errors, calls>>

\* lines 95-98
ScoreBegin ==
    /\ pc = "score_listings"
    /\ scored_jobs' = <<>>
    /\ score_errors' = 0
    /\ calls' = <<>>
    /\ pc' = "score"
    /\ UNCHANGED <<pipeline_vars, enriched>>

\* the next listing of the loop: the first attempt of _score_single
FirstCall ==
    /\ pc = "score"
    /\ Len(calls) < Len(enriched)
    /\ \E response \in Responses :
          /\ calls' = Append(calls, <<response>>)
          /\ IF _call_claude(response) = None
             THEN /\ pc' = "score_retry"
                  /\ UNCHANGED <<scored_jobs, score_errors>>
             ELSE /\ pc' = "score"
                  /\ Conclude(enriched[Len(calls) + 1], _call_claude(response))
    /\ UNCHANGED <<pipeline_vars, enriched>>

\* the retry, repeated until a call returns a result
Retry_UntilParsed ==
    /\ pc = "score_retry"
    /\ Len(calls[Len(calls)]) <= 2
    /\ \E response \in Responses :
          /\ calls' = [calls EXCEPT ![Len(calls)] = Append(@, response)]
          /\ IF _call_claude(response) = None
             THEN /\ pc' = "score_retry"
                  /\ UNCHANGED <<scored_jobs, score_errors>>
             ELSE /\ pc' = "score"
                  /\ Conclude(enriched[Len(calls)], _call_claude(response))
    /\ UNCHANGED <<pipeline_vars, enriched>>

\* the retry with the stricter prompt, after a first attempt that returned
\* None
Retry ==
    /\ pc = "score_retry"
    /\ \E response \in Responses :
          /\ calls' = [calls EXCEPT ![Len(calls)] = Append(@, response)]
          /\ Conclude(enriched[Len(calls)], _call_claude(response))
    /\ pc' = "score"
    /\ UNCHANGED <<pipeline_vars, enriched>>

\* lines 116-121: the loop is over
ScoreReturn ==
    /\ pc = "score"
    /\ Len(calls) = Len(enriched)
    /\ pc' = "scored"
    /\ UNCHANGED <<pipeline_vars, outer_vars>>

InitScorer ==
    /\ pc = "score_listings"
    /\ today = 0
    /\ runs = 0
    /\ scraped_total = 0
    /\ db = <<>>
    /\ listings = <<>>
    /\ key_writes = <<>>
    /\ all_listings = <<>>
    /\ unique = <<>>
    /\ seen_keys = <<>>
    /\ cursor = 0
    /\ unique_listings = <<>>
    /\ new_listings = <<>>
    /\ recent_keys = <<>>
    /\ stored = 0
    /\ log = <<>>
    /\ errors = <<>>
    /\ scraper = 0
    /\ scrape_log = <<>>
    /\ run_log = <<>>
    /\ enriched \in EnrichedInputs
    /\ scored_jobs = <<>>
    /\ score_errors = 0
    /\ calls = <<>>

NextScorer ==
    \/ ScoreWithoutKey
    \/ ScoreBegin
    \/ FirstCall
    \/ Retry
    \/ ScoreReturn

SpecScorer == InitScorer /\ [][NextScorer]_vars

\* ------------------------------------------------------------------------
\* Properties
\* ------------------------------------------------------------------------

\* the fuzzy key of the object o
KeyOf(o) == listings[o].fuzzy_key

\* two keys reach the duplicate threshold
Similar(k1, k2) == AtLeast(ratio(k1, k2), 85)

\* the cluster of a key: the first representative key it reaches 85 against
ClusterOf(key) ==
    CHOOSE j \in 1..Len(seen_keys) :
        /\ Similar(key, seen_keys[j])
        /\ \A k \in 1..(j - 1) : ~Similar(key, seen_keys[k])

\* C1: deduplicate_batch never returns more listings than it was given, and
\* returns as many exactly when no two listings of the batch, at distinct
\* positions, have fuzzy keys of similarity >= 85.
C1_DedupCount ==
    pc = "filter" =>
        /\ Len(unique_listings) <= Len(all_listings)
        /\ (Len(unique_listings) = Len(all_listings)) <=>
              ~\E a, b \in 1..Len(all_listings) :
                  /\ a # b
                  /\ Similar(KeyOf(all_listings[a]), KeyOf(all_listings[b]))

\* a batch of three of which one listing was removed
C1_Witness ==
    /\ pc = "filter"
    /\ Len(all_listings) = 3
    /\ Len(unique_listings) = 2

\* C2: after deduplicate_batch the survivor of every cluster is at least as
\* complete as every listing of the batch that belongs to the cluster.
C2_SurvivorMostComplete ==
    pc = "filter" =>
        \A n \in 1..Len(all_listings) :
            _completeness_score(
                listings[unique_listings[ClusterOf(KeyOf(all_listings[n]))]])
              >= _completeness_score(listings[all_listings[n]])

\* C3 (as claimed): no two distinct listings of the output of
\* deduplicate_batch have fuzzy keys of similarity >= 85.
C3_OutputPairwiseDistinct ==
    pc = "filter" =>
        \A a, b \in 1..Len(unique_listings) :
            a # b => ~Similar(KeyOf(unique_listings[a]), KeyOf(unique_listings[b]))

\* C3 (amended): the output holds exactly one listing per representative key,
\* the representative keys are pairwise below 85, every output listing
\* reaches 85 against the representative key of its position, and two output
\* listings reach 85 against each other only if one of them replaced the
\* listing that founded its cluster under a different key.
C3_OnePerRepresentative ==
    pc = "filter" =>
        /\ Len(unique_listings) = Len(seen_keys)
        /\ \A a, b \in 1..Len(seen_keys) :
              a # b => ~Similar(seen_keys[a], seen_keys[b])
        /\ \A a \in 1..Len(unique_listings) :
              Similar(KeyOf(unique_listings[a]), seen_keys[a])
        /\ \A a, b \in 1..Len(unique_listings) :
              (a # b /\ Similar(KeyOf(unique_listings[a]), KeyOf(unique_listings[b])))
                => (KeyOf(unique_listings[a]) # seen_keys[a]
                    \/ KeyOf(unique_listings[b]) # seen_keys[b])

\* two survivors, one of them under another key than its cluster's
C3_Witness ==
    /\ pc = "filter"
    /\ Len(unique_listings) = 2
    /\ \E a \in 1..2 : KeyOf(unique_listings[a]) # seen_keys[a]

\* the listing passes both tests of the seen-before filter
C4_Kept(o) ==
    /\ \A r \in 1..Len(db) : db[r].url # listings[o].url
    /\ \A r \in 1..Len(db) :
          db[r].fuzzy_key # None => ~Similar(KeyOf(o), db[r].fuzzy_key)

\* C4: filter_already_seen returns, in their order and unmodified, exactly
\* the listings whose url is not stored and whose fuzzy key reaches 85
\* against no stored key (a similarity of exactly 85 removes the listing).
C4_FilterExact ==
    [][pc = "filter" =>
          /\ listings' = listings
          /\ new_listings' = SelectSeq(unique_listings, C4_Kept)]_vars

\* a listing whose url is new was removed at a similarity of exactly 85
C4_Witness ==
    /\ pc = "detect"
    /\ \E n \in 1..Len(unique_listings) :
          LET o == unique_listings[n]
          IN  /\ \A m \in 1..Len(new_listings) : new_listings[m] # o
              /\ \A r \in 1..Len(db) : db[r].url # listings[o].url
              /\ \E r \in 1..Len(db) :
                    ratio(KeyOf(o), db[r].fuzzy_key)[1]
                        = 85 * ratio(KeyOf(o), db[r].fuzzy_key)[2]

\* company and title segments of the two keys clear 90 and 85
C6_Matches(key, recent_key) ==
    /\ AtLeast(ratio(SplitOn(key, "|")[1], SplitOn(recent_key, "|")[1]), 90)
    /\ AtLeast(ratio(SplitOn(key, "|")[2], SplitOn(recent_key, "|")[2]), 85)

\* C5: detect_reposts returns the sequence it was given, changes no field of
\* a listing other than is_repost and original_listing_id, and leaves a
\* listing that matches no window entry as it was.
C5_NonDestructive ==
    [][pc = "detect" =>
          /\ new_listings' = new_listings
          /\ DOMAIN listings' = DOMAIN listings
          /\ \A o \in DOMAIN listings :
                /\ listings'[o] =
                      [listings[o] EXCEPT
                          !.is_repost = listings'[o].is_repost,
                          !.original_listing_id = listings'[o].original_listing_id]
                /\ (~\E n \in 1..Len(recent_keys') :
                        C6_Matches(KeyOf(o), recent_keys'[n].key))
                      => listings'[o] = listings[o]]_vars

\* detect_reposts has flagged one listing and left another one alone
C5_Witness ==
    /\ pc = "store"
    /\ \E a, b \in 1..Len(new_listings) :
          /\ listings[new_listings[a]].is_repost
          /\ ~listings[new_listings[b]].is_repost

\* C6: after detect_reposts a listing is flagged exactly when some window key
\* clears 90 on the company segment and 85 on the title segment; a window
\* key with the same company and title but another location always matches.
C6_RepostIff ==
    pc = "store" =>
        \A n \in 1..Len(new_listings) :
            LET o == new_listings[n]
            IN  /\ listings[o].is_repost <=>
                      \E m \in 1..Len(recent_keys) :
                          C6_Matches(KeyOf(o), recent_keys[m].key)
                /\ (\E m \in 1..Len(recent_keys) :
                       /\ SplitOn(KeyOf(o), "|")[1] = SplitOn(recent_keys[m].key, "|")[1]
                       /\ SplitOn(KeyOf(o), "|")[2] = SplitOn(recent_keys[m].key, "|")[2])
                     => listings[o].is_repost

\* a flagged listing whose window entry differs from it in the location only
C6_Witness ==
    /\ pc = "store"
    /\ \E n \in 1..Len(new_listings) : \E m \in 1..Len(recent_keys) :
          LET mine   == SplitOn(KeyOf(new_listings[n]), "|")
              theirs == SplitOn(recent_keys[m].key, "|")
          IN  /\ listings[new_listings[n]].is_repost
              /\ mine[1] = theirs[1]
              /\ mine[2] = theirs[2]
              /\ mine[3] # theirs[3]

\* C7: a flagged listing refers to the first window entry, in the iteration
\* order of the window mapping, that clears both thresholds.
C7_FirstMatchWins ==
    pc = "store" =>
        \A n \in 1..Len(new_listings) :
            LET o == new_listings[n]
            IN  listings[o].is_repost =>
                  \E m \in 1..Len(recent_keys) :
                      /\ C6_Matches(KeyOf(o), recent_keys[m].key)
                      /\ \A q \in 1..(m - 1) :
                            ~C6_Matches(KeyOf(o), recent_keys[q].key)
                      /\ listings[o].original_listing_id = recent_keys[m].id

\* a flagged listing that two window entries match, the later of which it
\* does not refer to
C7_Witness ==
    /\ pc = "store"
    /\ \E n \in 1..Len(new_listings) : \E m, q \in 1..Len(recent_keys) :
          /\ m < q
          /\ listings[new_listings[n]].is_repost
          /\ C6_Matches(KeyOf(new_listings[n]), recent_keys[m].key)
          /\ C6_Matches(KeyOf(new_listings[n]), recent_keys[q].key)
          /\ listings[new_listings[n]].original_listing_id = recent_keys[m].id

\* C8: a listing that is a duplicate of a cluster leaves seen_keys and the
\* length of unique unchanged; it can only take the position of the cluster's
\* representative, and only when it is strictly more complete.
C8_ReplaceInPlace ==
    [][(/\ pc = "dedup_loop"
        /\ cursor <= Len(all_listings)
        /\ \E j \in 1..Len(seen_keys) :
              Similar(KeyOf(all_listings[cursor]), seen_keys[j]))
       => LET incoming == all_listings[cursor]
              j == ClusterOf(KeyOf(incoming))
          IN  /\ seen_keys' = seen_keys
              /\ Len(unique') = Len(unique)
              /\ \A k \in 1..Len(unique) : k # j => unique'[k] = unique[k]
              /\ unique'[j] \in {unique[j], incoming}
              /\ _completeness_score(listings[incoming])
                     <= _completeness_score(listings[unique[j]])
                   => unique'[j] = unique[j]]_vars

\* a representative was replaced and its cluster's key kept
C8_Witness ==
    /\ pc = "dedup_loop"
    /\ \E j \in 1..Len(unique) :
          /\ KeyOf(unique[j]) # seen_keys[j]
          /\ unique[j] > j

\* C9 (as claimed): a listing's fuzzy_key is assigned once in a run.
C9_WrittenOnce == \A o \in DOMAIN key_writes : key_writes[o] <= 1

\* C9 (amended): a listing's fuzzy_key is assigned twice in a run, by the
\* key stage of run() and again by deduplicate_batch, both times to
\* generate_fuzzy_key(listing), before any stage reads it; no stage after
\* the assignment in deduplicate_batch assigns it.
C9_WrittenTwiceThenStable ==
    \A o \in DOMAIN listings :
        /\ pc = "assign_keys" => key_writes[o] = 0 /\ KeyOf(o) = None
        /\ pc = "dedup" =>
              key_writes[o] = 1 /\ KeyOf(o) = generate_fuzzy_key(listings[o])
        /\ pc \in {"dedup_loop", "filter", "detect", "store", "idle"} =>
              key_writes[o] = 2 /\ KeyOf(o) = generate_fuzzy_key(listings[o])

\* a run has stored a listing
C9_Witness ==
    /\ pc = "idle"
    /\ stored > 0
    /\ \E o \in DOMAIN listings : key_writes[o] = 2

\* C10 (as claimed): deduplicate_batch changes neither its input sequence nor
\* a listing, and writes nothing.
C10_Pure ==
    [][(pc \in {"dedup", "dedup_loop"}) =>
          (all_listings' = all_listings /\ listings' = listings /\ log' = log)]_vars

\* C10 (amended): deduplicate_batch changes neither its input sequence nor
\* the table, and no field of a listing other than fuzzy_key, which it sets
\* to generate_fuzzy_key(listing); it writes one log line, when it removed
\* duplicates.
C10_OnlyKeysAndLog ==
    [][(pc \in {"dedup", "dedup_loop"}) =>
          /\ all_listings' = all_listings
          /\ db' = db
          /\ DOMAIN listings' = DOMAIN listings
          /\ \A o \in DOMAIN listings :
                listings'[o] \in
                    {listings[o],
                     [listings[o] EXCEPT
                         !.fuzzy_key = generate_fuzzy_key(listings[o])]}
          /\ log' # log =>
                /\ Len(unique) < Len(all_listings)
                /\ log' = Append(log, <<"Deduplication", Len(all_listings),
                                        Len(unique)>>)]_vars

\* deduplicate_batch has returned, having assigned keys and logged
C10_Witness ==
    /\ pc = "filter"
    /\ runs = 0
    /\ log # <<>>
    /\ \E o \in DOMAIN listings : KeyOf(o) # None

\* C11: is_repost and original_listing_id of a listing change only in
\* detect_reposts, only from their defaults (false, none) to true and the id
\* of a window entry, both together; no stage changes them back, so a listing
\* is flagged at most once.
C11_SetOnceNeverCleared ==
    [][(pc # "idle") =>
          \A o \in DOMAIN listings :
              (\/ listings'[o].is_repost # listings[o].is_repost
               \/ listings'[o].original_listing_id
                      # listings[o].original_listing_id)
              => /\ pc = "detect"
                 /\ ~listings[o].is_repost
                 /\ listings[o].original_listing_id = NoneNum
                 /\ listings'[o].is_repost
                 /\ \E n \in 1..Len(recent_keys') :
                       listings'[o].original_listing_id = recent_keys'[n].id]_vars

\* a flagged listing has been stored and still carries its flag and origin
C11_Witness ==
    /\ pc = "idle"
    /\ stored > 0
    /\ \E n \in 1..Len(new_listings) :
          /\ listings[new_listings[n]].is_repost
          /\ listings[new_listings[n]].original_listing_id # NoneNum

\* C12: splitting a generated fuzzy key on '|' yields exactly three segments,
\* whatever the company, title and location of the listing.
C12_ThreeSegments ==
    pc = "dedup" =>
        \A o \in DOMAIN listings : Len(SplitOn(KeyOf(o), "|")) = 3

\* the title of the listing with every '&' replaced by the word "and"
C13_Spelled(listing) ==
    [listing EXCEPT !.title = replace(listing.title, "&", <<"a","n","d">>)]

\* C13: a listing whose title contains '&' gets the key of the same listing
\* with "and" in place of every '&'.
C13_AmpersandIsAnd ==
    pc = "dedup" =>
        \A o \in DOMAIN listings :
            KeyOf(o) = generate_fuzzy_key(C13_Spelled(listings[o]))

\* C14: normalizing the normalized company, title or location of a listing
\* returns it unchanged, so the key of a listing made of the three
\* normalized fields is the key of the listing.
C14_Idempotent ==
    pc = "dedup" =>
        \A o \in DOMAIN listings :
            LET c == normalize_company(listings[o].company)
                t == normalize_title(listings[o].title)
                l == normalize_location(OrEmpty(listings[o].location))
            IN  /\ normalize_company(c) = c
                /\ normalize_title(t) = t
                /\ normalize_location(l) = l
                /\ generate_fuzzy_key([company |-> c, title |-> t,
                                       location |-> l]) = KeyOf(o)

\* the key of a company that loses a suffix word written with punctuation
C14_Witness ==
    /\ pc = "dedup"
    /\ listings[1].company = <<"C", ".", "o">>
    /\ KeyOf(1) = <<"|", "x", "|">>

\* the part of a key after its first two delimiters
C15_LocationOf(key) ==
    LET bars == {i \in 1..Len(key) : key[i] = "|"}
        b1   == First(bars)
        b2   == First(bars \ {b1})
    IN  SubSeq(key, b2 + 1, Len(key))

\* some keyword of kws is a substring of loc
C15_Mentions(loc, kws) == \E kw \in Range(kws) : Contains(loc, kw)

\* C15: the location of a key is los_angeles if the trimmed lowercase
\* location mentions a Los Angeles keyword, otherwise san_francisco if it
\* mentions a Bay Area keyword, otherwise new_york if it mentions a New York
\* keyword, otherwise the trimmed lowercase location itself; "Santa Monica,
\* CA" gives los_angeles and "Austin, TX" gives "austin, tx".
C15_LocationPriority ==
    pc = "dedup" =>
        \A o \in DOMAIN listings :
            LET loc == strip(lower(OrEmpty(listings[o].location)))
                out == C15_LocationOf(KeyOf(o))
            IN  /\ C15_Mentions(loc, la_keywords)
                     => out = <<"l","o","s","_","a","n","g","e","l","e","s">>
                /\ (~C15_Mentions(loc, la_keywords)
                      /\ C15_Mentions(loc, sf_keywords))
                     => out = <<"s","a","n","_","f","r","a","n","c","i","s","c","o">>
                /\ (~C15_Mentions(loc, la_keywords)
                      /\ ~C15_Mentions(loc, sf_keywords)
                      /\ C15_Mentions(loc, nyc_keywords))
                     => out = <<"n","e","w","_","y","o","r","k">>
                /\ (~C15_Mentions(loc, la_keywords)
                      /\ ~C15_Mentions(loc, sf_keywords)
                      /\ ~C15_Mentions(loc, nyc_keywords))
                     => out = loc
                /\ listings[o].location = Places[1]
                     => out = <<"l","o","s","_","a","n","g","e","l","e","s">>
                /\ listings[o].location = Places[2]
                     => out = <<"a","u","s","t","i","n",","," ","t","x">>

\* a location that mentions a Bay Area keyword and a Los Angeles keyword
C15_Witness ==
    /\ pc = "dedup"
    /\ C15_Mentions(lower(OrEmpty(listings[1].location)), sf_keywords)
    /\ C15_LocationOf(KeyOf(1)) = <<"l","o","s","_","a","n","g","e","l","e","s">>

\* the pairs <<candidate, stored>> of strings whose similarity the stage
\* about to run compares with a threshold
ComparedPairs ==
    IF pc = "dedup_loop" /\ cursor <= Len(all_listings)
    THEN {<<KeyOf(all_listings[cursor]), seen_keys[j]>> : j \in 1..Len(seen_keys)}
    ELSE IF pc = "filter"
    THEN {<<OrEmpty(KeyOf(unique_listings[n])), db[r].fuzzy_key>> :
             n \in 1..Len(unique_listings), r \in 1..Len(db)}
    ELSE IF pc = "detect"
    THEN UNION {{<<SplitOn(KeyOf(new_listings[n]), "|")[1],
                   SplitOn(RecentRows(db, today, 30)[r].fuzzy_key, "|")[1]>>,
                 <<SplitOn(KeyOf(new_listings[n]), "|")[2],
                   SplitOn(RecentRows(db, today, 30)[r].fuzzy_key, "|")[2]>>} :
                   n \in 1..Len(new_listings),
                   r \in 1..Len(RecentRows(db, today, 30))}
    ELSE {}

\* C16: the similarity of every pair of strings a stage compares is the
\* same in both orders, and so is the outcome of the comparison with each of
\* the thresholds.
C16_Symmetric ==
    \A p \in ComparedPairs :
        /\ ratio(p[1], p[2]) = ratio(p[2], p[1])
        /\ AtLeast(ratio(p[1], p[2]), 85) <=> AtLeast(ratio(p[2], p[1]), 85)
        /\ AtLeast(ratio(p[1], p[2]), 90) <=> AtLeast(ratio(p[2], p[1]), 90)

\* a stage compares two strings of different lengths that have some but not
\* all characters in common
C16_Witness ==
    \E p \in ComparedPairs :
        /\ Len(p[1]) # Len(p[2])
        /\ ratio(p[1], p[2])[1] > 0
        /\ ratio(p[1], p[2])[1] < 100 * ratio(p[1], p[2])[2]

\* C17: every similarity lies in 0..100; a string compared with itself gives
\* 100, the empty string included; the empty string against a non-empty one
\* gives less than 100; so of two listings of a batch with the same key at
\* most one survives deduplicate_batch.
C17_RangeAndIdentity ==
    /\ ratio(<<>>, <<>>)[1] = 100 * ratio(<<>>, <<>>)[2]
    /\ \A p \in ComparedPairs :
          /\ ratio(p[1], p[2])[2] > 0
          /\ ratio(p[1], p[2])[1] >= 0
          /\ ratio(p[1], p[2])[1] <= 100 * ratio(p[1], p[2])[2]
          /\ ratio(p[1], p[1])[1] = 100 * ratio(p[1], p[1])[2]
          /\ ratio(p[2], p[2])[1] = 100 * ratio(p[2], p[2])[2]
          /\ p[2] # <<>> =>
                ratio(<<>>, p[2])[1] < 100 * ratio(<<>>, p[2])[2]
    /\ pc = "filter" =>
          \A a, b \in 1..Len(all_listings) :
              (a # b /\ KeyOf(all_listings[a]) = KeyOf(all_listings[b]))
                => ~(/\ \E n \in 1..Len(unique_listings) :
                           unique_listings[n] = all_listings[a]
                     /\ \E n \in 1..Len(unique_listings) :
                           unique_listings[n] = all_listings[b])

\* a listing is compared with a stored key identical to its own
C17_Witness ==
    /\ pc = "filter"
    /\ \E p \in ComparedPairs : p[1] = p[2] /\ p[1] # <<>>

\* the completeness of a listing as the sum of the points of its fields
C18_Points(listing) ==
      (IF listing.description > 100 THEN 3 ELSE 0)
    + 2 * Cardinality({n \in 1..2 :
              <<listing.salary_min, listing.salary_max>>[n] # NoneNum})
    + Cardinality({n \in 1..3 :
          <<listing.experience_required, listing.date_posted,
            listing.company_industry>>[n] \notin {None, <<>>}})

\* C18: the completeness score of a listing is 3 for a description of more
\* than 100 characters, plus 2 for each salary bound that is present, plus 1
\* for each of experience_required, date_posted and company_industry that is
\* present; it lies in 0..10, and it is the score by which deduplicate_batch
\* decides between two duplicates.
C18_ScoreIsSum ==
    [][(pc = "dedup_loop" /\ cursor = 2) =>
          /\ \A o \in {1, 2} :
                /\ _completeness_score(listings[o]) = C18_Points(listings[o])
                /\ _completeness_score(listings[o]) \in 0..10
          /\ unique' = IF C18_Points(listings[2]) > C18_Points(listings[1])
                       THEN <<2>> ELSE <<1>>]_vars

\* a description of 101 characters has won over one of 100 characters
C18_Witness ==
    /\ pc = "filter"
    /\ unique_listings = <<2>>
    /\ listings[1].description = 100
    /\ listings[2].description = 101
    /\ _completeness_score(listings[2]) = 3
    /\ _completeness_score(listings[1]) = 0

\* the order of the stages of a run
C19_Order ==
    { <<"idle", "assign_keys">>, <<"assign_keys", "dedup">>,
      <<"dedup", "dedup_loop">>, <<"dedup", "filter">>,
      <<"dedup_loop", "dedup_loop">>, <<"dedup_loop", "filter">>,
      <<"filter", "detect">>, <<"detect", "store">>, <<"store", "idle">> }

\* C19: the stages of a run follow each other in the order key assignment,
\* batch dedup, seen-before filter, repost detection, storage; the table
\* changes in the storage stage only, which ends the run, so the filter and
\* the repost detection read the table as the run found it (it holds no more
\* rows than earlier runs scraped listings), and a listing the filter
\* removes has a row with its url or a similar key in that table.
C19_StoreLast ==
    [][/\ <<pc, pc'>> \in C19_Order
       /\ pc # "store" => db' = db
       /\ pc = "store" => pc' = "idle"
       /\ pc = "filter" =>
             \A n \in 1..Len(unique_listings) :
                 (\A m \in 1..Len(new_listings') :
                      new_listings'[m] # unique_listings[n])
                 => \E r \in 1..Len(db) :
                       \/ db[r].url = listings[unique_listings[n]].url
                       \/ Similar(KeyOf(unique_listings[n]), db[r].fuzzy_key)
       /\ pc # "idle" => Len(db) <= scraped_total - Len(all_listings)
       /\ pc = "detect" => recent_keys' \in
             {get_recent_fuzzy_keys(db, today, 30, order) :
                  order \in Orders(Len(RecentRows(db, today, 30)))}]_vars

\* a first run reaches storage with all it scraped, the table still empty
C19_Witness ==
    /\ pc = "store"
    /\ runs = 1
    /\ db = <<>>
    /\ Len(all_listings) = 2
    /\ Len(new_listings) = 2

\* the listing with an absent location written as the empty string
C20_Blank(listing) ==
    [listing EXCEPT !.location = IF @ = None THEN <<>> ELSE @]

\* C20: a listing whose location is None has the key of the same listing
\* with the empty location; filter_already_seen compares a listing without a
\* key as the empty string, which reaches 85 against no stored key, so it
\* removes such a listing for its url only; detect_reposts decides every
\* listing of its input by the key it generates for it, also those that
\* follow a listing without location, and assigns no key.
C20_AbsentAsEmpty ==
    [][/\ \A o \in DOMAIN listings :
             /\ generate_fuzzy_key(listings[o])
                   = generate_fuzzy_key(C20_Blank(listings[o]))
             /\ KeyOf(o) = None /\ KeyOf(o)' = None
       /\ pc = "filter" =>
             /\ \A n \in 1..Len(unique_listings), r \in 1..Len(db) :
                   ~AtLeast(ratio(<<>>, db[r].fuzzy_key), 85)
             /\ new_listings' = SelectSeq(unique_listings,
                   LAMBDA o : \A r \in 1..Len(db) : db[r].url # listings[o].url)
       /\ pc = "detect" =>
             \A n \in 1..Len(new_listings) :
                 listings'[new_listings[n]].is_repost <=>
                     \E m \in 1..Len(recent_keys') :
                         C6_Matches(
                             generate_fuzzy_key(C20_Blank(listings[new_listings[n]])),
                             recent_keys'[m].key)]_vars

\* a listing without key and location was let through and flagged, and so
\* was the listing after it
C20_Witness ==
    /\ pc = "store"
    /\ Len(new_listings) = 2
    /\ listings[new_listings[1]].location = None
    /\ KeyOf(new_listings[1]) = None
    /\ listings[new_listings[1]].is_repost
    /\ listings[new_listings[2]].is_repost

\* C21: for the empty batch deduplicate_batch returns the empty list at once,
\* filter_already_seen and detect_reposts return the empty list whatever the
\* table holds, and nothing is stored; the key of a listing whose fields are
\* all empty is "||".
C21_EmptyBatch ==
    /\ generate_fuzzy_key(JobListing(<<<<>>, <<>>, <<>>, "", 0,
                                       NoneNum, NoneNum, None>>, 0))
          = <<"|", "|">>
    /\ (runs > 0 /\ all_listings = <<>>) =>
          /\ pc # "dedup_loop"
          /\ listings = <<>>
          /\ unique_listings = <<>>
          /\ new_listings = <<>>
          /\ stored = 0
          /\ \A n \in 1..Len(log) : log[n] = <<"Already-seen filter", 0, 0>>

\* a run on the empty batch has gone through all stages on a table that
\* holds rows
C21_Witness ==
    /\ pc = "idle"
    /\ runs = 2
    /\ all_listings = <<>>
    /\ db # <<>>
    /\ log # <<>>

\* C22: the stages that call generate_fuzzy_key leave every field of the
\* listing as it was, except the fuzzy_key their own assignment of the
\* result writes, and two listings with the same company, title and
\* location have the same key.
C22_KeyIsFunction ==
    [][/\ (pc \in {"assign_keys", "dedup"}) =>
             /\ DOMAIN listings' = DOMAIN listings
             /\ \A o \in DOMAIN listings :
                   /\ listings'[o] =
                         [listings[o] EXCEPT !.fuzzy_key = listings'[o].fuzzy_key]
                   /\ listings'[o].fuzzy_key
                         \in {listings[o].fuzzy_key,
                              generate_fuzzy_key(listings[o])}
       /\ \A a, b \in DOMAIN listings' :
             (/\ listings'[a].company = listings'[b].company
              /\ listings'[a].title = listings'[b].title
              /\ listings'[a].location = listings'[b].location)
             => listings'[a].fuzzy_key = listings'[b].fuzzy_key]_vars

\* two listings of a batch with the same company, title and location, keyed
C22_Witness ==
    /\ pc = "dedup"
    /\ \E a, b \in DOMAIN listings :
          /\ a # b
          /\ listings[a].company = listings[b].company
          /\ listings[a].title = listings[b].title
          /\ listings[a].location = listings[b].location
          /\ KeyOf(a) # None
          /\ KeyOf(a) = KeyOf(b)

\* C23: of the batch of "Acme Inc." / "Ops Associate" / "Santa Monica" and
\* "Acme" / "Ops Associate" / "Los Angeles" both listings get the key
\* "acme|ops associate|los_angeles" and deduplicate_batch returns one
\* listing, the first.
C23_ScenarioA ==
    (/\ pc = "filter"
     /\ Len(all_listings) = 2
     /\ listings[1].url = "w1"
     /\ listings[2].url = "w2")
    => /\ KeyOf(1) = 
              <<"a","c","m","e","|","o","p","s"," ","a","s","s","o","c","i","a","t","e","|","l","o","s","_","a","n","g","e","l","e","s">>
       /\ KeyOf(2) = KeyOf(1)
       /\ unique_listings = <<1>>

\* deduplicate_batch has returned for the batch of the two listings
C23_Witness ==
    /\ pc = "filter"
    /\ Len(all_listings) = 2
    /\ listings[1].company = AcmeInc
    /\ listings[2].company = Acme
    /\ listings[1].location # listings[2].location
    /\ Len(unique_listings) = 1
    /\ log = <<<<"Deduplication", 2, 1>>>>

\* C24: a listing is a duplicate exactly when its key reaches 85 against
\* some representative key; then the representative keys stay as they are
\* and only the position of the first such key can change in unique;
\* otherwise the listing and its key are appended as a new representative.
\* The keys of the listings in unique take no part in the decision.
C24_RepresentativeOnly ==
    [][(pc = "dedup_loop" /\ cursor <= Len(all_listings)) =>
          LET incoming == all_listings[cursor]
              reps == {j \in 1..Len(seen_keys) :
                          Similar(KeyOf(incoming), seen_keys[j])}
          IN  /\ Len(seen_keys) = Len(unique)
              /\ reps = {} =>
                    /\ unique' = Append(unique, incoming)
                    /\ seen_keys' = Append(seen_keys, KeyOf(incoming))
              /\ reps # {} =>
                    /\ seen_keys' = seen_keys
                    /\ Len(unique') = Len(unique)
                    /\ \A k \in 1..Len(unique) :
                          k # First(reps) => unique'[k] = unique[k]]_vars

\* the last listing founded a cluster although its key reaches 85 against
\* the key of a listing that replaced the founder of another cluster
C24_Witness ==
    /\ pc = "dedup_loop"
    /\ Len(unique) = 2
    /\ unique[2] = 3
    /\ KeyOf(unique[1]) # seen_keys[1]
    /\ Similar(KeyOf(unique[2]), KeyOf(unique[1]))
    /\ ~Similar(KeyOf(unique[2]), seen_keys[1])

\* C25: in a run that scrapes the listings of the run before it, on the
\* table that run left, filter_already_seen lets no listing through; the
\* table stays as it is, the count of stored listings is 0 and no listing is
\* flagged.
C25_RerunStoresNothing ==
    [][runs >= 2 =>
          /\ db' = db
          /\ new_listings' = <<>>
          /\ stored' = 0
          /\ \A o \in DOMAIN listings' : ~listings'[o].is_repost]_vars

\* the second run has ended; the first had stored one of its two survivors
\* and skipped the other for its url
C25_Witness ==
    /\ pc = "idle"
    /\ runs = 2
    /\ Len(unique_listings) = 2
    /\ Len(db) = 1
    /\ new_listings = <<>>

\* the keys of the entries of a key-to-id mapping
C26_Keys(entries) == {entries[n].key : n \in 1..Len(entries)}

\* C26: every key of the 30-day window is a key of the all-time index, in
\* whatever order the rows are read; so a listing detect_reposts has flagged
\* is below 85 against the key of the row its original_listing_id names.
C26_WindowInIndex ==
    /\ \A order \in Orders(Len(RecentRows(db, today, 30))) :
          C26_Keys(get_recent_fuzzy_keys(db, today, 30, order))
              \subseteq C26_Keys(get_existing_fuzzy_keys(db))
    /\ pc = "store" =>
          /\ C26_Keys(recent_keys) \subseteq C26_Keys(get_existing_fuzzy_keys(db))
          /\ \A n \in 1..Len(new_listings) :
                listings[new_listings[n]].is_repost =>
                    \E r \in 1..Len(db) :
                        /\ db[r].id = listings[new_listings[n]].original_listing_id
                        /\ ~Similar(KeyOf(new_listings[n]), db[r].fuzzy_key)

\* a flagged listing whose key shares more than half, but less than 85
\* percent, with the key of its original
C26_Witness ==
    /\ pc = "store"
    /\ \E n \in 1..Len(new_listings) : \E r \in 1..Len(db) :
          /\ listings[new_listings[n]].is_repost
          /\ db[r].id = listings[new_listings[n]].original_listing_id
          /\ AtLeast(ratio(KeyOf(new_listings[n]), db[r].fuzzy_key), 50)
          /\ ~AtLeast(ratio(KeyOf(new_listings[n]), db[r].fuzzy_key), 85)

\* C27: the count store_listings_batch returns is the number of rows the
\* table has grown by.
C27_CountIsGrowth ==
    [][pc = "store" => stored' = Len(db') - Len(db)]_vars

\* C28: a location that is a keyword of the Bay Area set gives the location
\* san_francisco, and one that is a keyword of the New York set gives
\* new_york.
C28_AliasesKeepTheirMetro ==
    pc = "dedup" =>
        \A o \in DOMAIN listings :
            /\ listings[o].location \in Range(sf_keywords) =>
                  C15_LocationOf(KeyOf(o))
                      = <<"s","a","n","_","f","r","a","n","c","i","s","c","o">>
            /\ listings[o].location \in Range(nyc_keywords) =>
                  C15_LocationOf(KeyOf(o)) = <<"n","e","w","_","y","o","r","k">>

\* the names of the scrapers a log of the scrape loop reports as failed
FailedScrapers(lines) ==
    [k \in 1..Len(SelectSeq(lines, LAMBDA line : line.failed)) |->
        SelectSeq(lines, LAMBDA line : line.failed)[k].scraper]

\* the number of listings a log of the scrape loop reports as scraped
RECURSIVE Collected(_)
Collected(lines) ==
    IF lines = <<>> THEN 0
    ELSE lines[Len(lines)].count + Collected(SubSeq(lines, 1, Len(lines) - 1))

\* a is the beginning of b
IsPrefix(a, b) == Len(a) <= Len(b) /\ SubSeq(b, 1, Len(a)) = a

\* a scraper has failed in the scrape loop of the current run
ScraperFailed == pc = "scrape" /\ FailedScrapers(scrape_log) # <<>>

Concluded(k) == k < Len(calls) \/ (k = Len(calls) /\ pc # "score_retry")

\* the last call made for the k-th listing returned an object with a score
Scores(k) == _call_claude(calls[k][Len(calls[k])]) = <<"dict">>

\* the positions of the listings that were concluded with a score, ascending
ScoredPositions ==
    SelectSeq([k \in 1..Len(calls) |-> k], LAMBDA k : Concluded(k) /\ Scores(k))

\* C30: the scorer calls the LLM once or twice for a listing, the second
\* time only after a first call that returned None; scored_jobs holds, in the
\* order of the input, exactly the listings whose last call returned an
\* object with a score, so a listing whose two calls failed is left out and
\* the listings after it are still scored; the output is never longer than
\* the input, and with an API key score_listings returns only after it has
\* tried every listing
C30_RetryBounded ==
    /\ \A k \in 1..Len(calls) :
          /\ Len(calls[k]) \in {1, 2}
          /\ Len(calls[k]) = 2 => _call_claude(calls[k][1]) = None
    /\ Len(calls) <= Len(enriched)
    /\ scored_jobs = [n \in 1..Len(ScoredPositions) |->
                        [listing |-> enriched[ScoredPositions[n]]]]
    /\ Len(scored_jobs) <= Len(enriched)
    /\ pc = "scored" =>
          \/ Len(calls) = Len(enriched)
          \/ calls = <<>> /\ scored_jobs = <<>>

\* score_listings has returned for three listings: both calls failed for the
\* first, the retry scored the second, the first call scored the third, and
\* the output is the second and the third
C30_Witness ==
    /\ pc = "scored"
    /\ Len(enriched) = 3
    /\ enriched[2] # enriched[3]
    /\ calls = << <<"not JSON", "API error">>,
                  <<"object without score", "object with score">>,
                  <<"object with score">> >>
    /\ scored_jobs = <<[listing |-> enriched[2]], [listing |-> enriched[3]]>>
    /\ score_errors = 1

====
